---------------------------- MODULE Spec2Model ----------------------------
(***************************************************************************)
(* A model of the avrisp STK500v2 driver: the frame codec (Message), the   *)
(* sequence generator, the request/response exchange (STK500v2::command),  *)
(* the Normal -> IspMode -> closed session and the program of main.rs.     *)
(*                                                                         *)
(* Bytes are integers 0..255.  A Rust slice or array is a sequence; the    *)
(* source's 0-based index i is element i + 1 of the sequence.              *)
(***************************************************************************)
EXTENDS Integers, Sequences, FiniteSets, TLC

VARIABLES
    codec,      \* the frame codec exercised on its own: inputs and results
    sequencer,  \* SequenceGenerator { count } of the transport session
    nth,        \* the values next() has returned so far, in call order
    specs,      \* specs::Specs the session was opened with
    session,    \* the session value the caller holds: "Normal" (STK500v2),
                \* "IspMode", "Closed" (consumed by close), "Dropped"
    caller,     \* "client" (any caller of the public API), "poller" (a
                \* client that keeps one session through more than 256
                \* commands) or the position
                \* of main()
    op,         \* the operation in progress or last finished
    sent,       \* the command() calls of that operation, each with its
                \* frame, its outcome and the session as it was at the call
    calls,      \* the number of command() calls made on the transport
    entered,    \* an enter-ISP-mode exchange has succeeded on the transport
    image       \* the flash image main() holds between read() and dump()

vars == <<codec, sequencer, nth, specs, session, caller, op, sent, calls, entered,
          image>>

---------------------------------------------------------------------------
(* Bounds of the model *)

\* Bodies up to this length are enumerated exhaustively over ByteSamples.
MaxShortBody == 2
\* Number of next() calls made on a sequence generator on its own.
MaxCalls == 300
\* The longest flash image truncate is given.
MaxImageLen == 4
\* The number of times the poller signs on before it enters ISP mode.
PollerSignOns == 255
\* A client starts no further operation once this many commands have been
\* sent.
MaxSent == 3
\* Page sizes of the Specs range over 1..MaxPageSize.
MaxPageSize == 2
\* A client passes read() a destination of 0..MaxBufferLen bytes.
MaxBufferLen == 3
\* The memories main() reads hold this many pages.
MemPages == 4

---------------------------------------------------------------------------
(* Bytes *)

Byte == 0..255

RECURSIVE XorBits(_, _, _)
XorBits(a, b, n) ==
    IF n = 0 THEN 0
    ELSE (((a % 2) + (b % 2)) % 2) + 2 * XorBits(a \div 2, b \div 2, n - 1)

\* The XOR of two 4-bit values, tabulated.
Xor4 == [a \in 0..15 |-> [b \in 0..15 |-> XorBits(a, b, 4)]]

\* u8 ^ u8
Xor(a, b) == 16 * Xor4[a \div 16][b \div 16] + Xor4[a % 16][b % 16]

\* The Rust range buf[from..to] (to excluded), 0-based.
Slice(buf, from, to) == SubSeq(buf, from + 1, to)

\* buf[i] = v, 0-based.
Store(buf, i, v) == [buf EXCEPT ![i + 1] = v]

\* buf[i], 0-based.
At(buf, i) == buf[i + 1]

\* The two length bytes, low byte first.
to_le_bytes(v) == <<(v % 65536) % 256, ((v % 65536) \div 256)>>

\* (v as u16).to_be_bytes()
to_be_bytes(v) == <<((v % 65536) \div 256), (v % 65536) % 256>>

\* u16::from_be_bytes([hi, lo])
from_be_bytes(hi, lo) == hi * 256 + lo

---------------------------------------------------------------------------
(* Results: Result<T, ErrorKind>, and a panic that aborts the process *)

Ok(v) == [tag |-> "Ok", val |-> v]
Err(e) == [tag |-> "Err", err |-> e]
Panic == [tag |-> "Panic"]

\* errors::ErrorKind: the unit variants carry nothing, Io carries the error.
AnswerIdError == [kind |-> "AnswerIdError"]
StatusError == [kind |-> "StatusError"]
SequenceError == [kind |-> "SequenceError"]
ChecksumError == [kind |-> "ChecksumError"]
Io(e) == [kind |-> "Io", error |-> e]

---------------------------------------------------------------------------
(* Message: the frame held in a fixed, zero-filled buffer of MAX_SIZE bytes *)

MESSAGE_START == 27
MESSAGE_START_POSITION == 0
TOKEN == 14
TOKEN_PSITION == 4
HEADER_SIZE == 5
CHECKSUM_SIZE == 1
BODY_START_POSITION == 5
LEN_BYTE_0_POSITION == 2
LEN_BYTE_1_POSITION == 3
SEQ_PSITION == 1
MAX_BODY_SIZE == 275
MAX_SIZE == MAX_BODY_SIZE + CHECKSUM_SIZE + HEADER_SIZE

ZeroBuffer == [i \in 1..MAX_SIZE |-> 0]

\* bytes[lo] ^ bytes[lo + 1] ^ ... ^ bytes[hi] (1-based, lo <= hi).  The loop
\* of calc_checksum folds from the left; ^ is associative, and the fold is
\* evaluated by halves so that the evaluation depth stays logarithmic.
RECURSIVE XorFold(_, _, _)
XorFold(bytes, lo, hi) ==
    IF lo = hi THEN bytes[lo]
    ELSE LET mid == (lo + hi) \div 2
         IN  Xor(XorFold(bytes, lo, mid), XorFold(bytes, mid + 1, hi))

\* The fold started one byte late.
calc_checksum_skips_first(bytes) == XorFold(bytes, 2, Len(bytes))

\* result = bytes[0]; for byte in bytes.iter().skip(1) { result ^= byte }
calc_checksum(bytes) == XorFold(bytes, 1, Len(bytes))

\* Message::new.  A body longer than MAX_BODY_SIZE indexes past the buffer.
Message_new(seq, body) ==
    LET body_size == Len(body)
        end_index == BODY_START_POSITION + body_size
        len == to_be_bytes(body_size)
        b1 == Store(ZeroBuffer, MESSAGE_START_POSITION, MESSAGE_START)
        b2 == Store(b1, TOKEN_PSITION, TOKEN)
        b3 == Store(b2, SEQ_PSITION, seq)
        b4 == Store(Store(b3, LEN_BYTE_0_POSITION, len[1]),
                    LEN_BYTE_1_POSITION, len[2])
        \* buffer[BODY_START_POSITION..end_index].copy_from_slice(&body)
        b5 == Slice(b4, 0, BODY_START_POSITION) \o body
                \o Slice(b4, end_index, MAX_SIZE)
    IN  IF body_size > MAX_BODY_SIZE THEN Panic
        ELSE Ok([buffer |->
                   Store(b5, end_index, calc_checksum(Slice(b5, 0, end_index)))])

get_sequence(msg) == At(msg.buffer, SEQ_PSITION)

get_body_size(msg) ==
    from_be_bytes(At(msg.buffer, LEN_BYTE_0_POSITION),
                  At(msg.buffer, LEN_BYTE_1_POSITION))

get_end_index(msg) == BODY_START_POSITION + get_body_size(msg)

body_slice(msg) == Slice(msg.buffer, BODY_START_POSITION, get_end_index(msg))

\* &self.buffer[..=self.get_end_index()]
as_slice(msg) == Slice(msg.buffer, 0, get_end_index(msg) + 1)

\* The conversion without the comparison of the checksum byte.
try_from_ignores_checksum(buffer) == Ok([buffer |-> buffer])

\* The decoding that also wants the start marker and the token in place.
try_from_checks_header(buffer) ==
    LET body_size == from_be_bytes(At(buffer, LEN_BYTE_0_POSITION),
                                   At(buffer, LEN_BYTE_1_POSITION))
        end_index == BODY_START_POSITION + body_size
    IN  IF end_index >= MAX_SIZE THEN Panic
        ELSE IF \/ At(buffer, end_index) # calc_checksum(Slice(buffer, 0, end_index))
                \/ At(buffer, MESSAGE_START_POSITION) # MESSAGE_START
                \/ At(buffer, TOKEN_PSITION) # TOKEN
             THEN Err(ChecksumError)
             ELSE Ok([buffer |-> buffer])

\* TryFrom<MessageBuffer> for Message.  buffer[end_index] is out of range when
\* the length bytes declare more than MAX_BODY_SIZE.
try_from(buffer) ==
    LET body_size == from_be_bytes(At(buffer, LEN_BYTE_0_POSITION),
                                   At(buffer, LEN_BYTE_1_POSITION))
        end_index == BODY_START_POSITION + body_size
    IN  IF end_index >= MAX_SIZE THEN Panic
        ELSE IF At(buffer, end_index) # calc_checksum(Slice(buffer, 0, end_index))
             THEN Err(ChecksumError)
             ELSE Ok([buffer |-> buffer])

\* The read that stops one byte short of the end of the body.
read_message_drops_checksum_byte(wire) ==
    LET body_size == from_be_bytes(At(wire, LEN_BYTE_0_POSITION),
                                   At(wire, LEN_BYTE_1_POSITION))
        end == HEADER_SIZE + body_size
    IN  try_from(Slice(wire, 0, end) \o Slice(ZeroBuffer, end, MAX_SIZE))

\* STK500v2::read_message, given the bytes the port delivers before its
\* timeout.  read_exact fails when fewer bytes arrive than it asks for; the
\* range buffer[BODY_START_POSITION..end] is out of range when end > MAX_SIZE.
read_message(wire) ==
    IF Len(wire) < HEADER_SIZE THEN Err(Io("TimedOut"))
    ELSE
      LET body_size == from_be_bytes(At(wire, LEN_BYTE_0_POSITION),
                                     At(wire, LEN_BYTE_1_POSITION))
          end == HEADER_SIZE + body_size + CHECKSUM_SIZE
      IN  IF end > MAX_SIZE THEN Panic
          ELSE IF Len(wire) < end THEN Err(Io("TimedOut"))
          ELSE try_from(Slice(wire, 0, end) \o Slice(ZeroBuffer, end, MAX_SIZE))

---------------------------------------------------------------------------
(* SequenceGenerator *)

SequenceGenerator_new == [count |-> 0]

\* The increment without the wrap at 255.
next_without_wrap(gen) ==
    [ret |-> [some |-> TRUE, val |-> gen.count],
     gen |-> [count |-> gen.count + 1]]

\* Iterator::next: returns Some(count), then count = count.wrapping_add(1).
next(gen) ==
    [ret |-> [some |-> TRUE, val |-> gen.count],
     gen |-> [count |-> (gen.count + 1) % 256]]

---------------------------------------------------------------------------
(* Helpers *)

\* All sequences over S of length at most n.
RECURSIVE SeqsUpTo(_, _)
SeqsUpTo(S, n) ==
    IF n = 0 THEN {<<>>}
    ELSE LET shorter == SeqsUpTo(S, n - 1)
         IN  shorter \cup {Append(s, x) : s \in shorter, x \in S}

\* The codec's record before any use.
CodecIdle ==
    [stage |-> "idle", seq |-> 0, body |-> <<>>, msg |-> Panic, wire |-> <<>>,
     corrupted |-> FALSE, foreign |-> FALSE, decoded |-> Panic]


\* 2^k
Pow2(k) == CASE k = 0 -> 1 [] k = 1 -> 2 [] k = 2 -> 4 [] k = 3 -> 8
             [] k = 4 -> 16 [] k = 5 -> 32 [] k = 6 -> 64 [] k = 7 -> 128

\* Bit k of the XOR of all the bytes of s: the parity of the number of
\* bytes of s that have bit k set.
ParityBit(s, k) ==
    Cardinality({i \in 1..Len(s) : (s[i] \div Pow2(k)) % 2 = 1}) % 2

\* The XOR of all the bytes of s.
XorAll(s) ==
    ParityBit(s, 0) + 2 * ParityBit(s, 1) + 4 * ParityBit(s, 2)
      + 8 * ParityBit(s, 3) + 16 * ParityBit(s, 4) + 32 * ParityBit(s, 5)
      + 64 * ParityBit(s, 6) + 128 * ParityBit(s, 7)

---------------------------------------------------------------------------
(* Protocol constants *)

\* command::Normal
SignOn == 1
SetParameter == 2
LoadAddress == 6
EnterIspMode == 16
LeaveIspMode == 17
\* command::Isp
ChipErase == 18
ReadFlash == 20
ReadEeprom == 22
ReadFuse == 24
ReadLock == 26
ReadSignature == 27
\* param::RW
ResetPolarity == 158
\* Status
CmdOk == 0
CmdTimeout == 128
CmdFailed == 192

\* specs::IspCommand
PROGRAMMING_ENABLE == <<172, 83, 0, 0>>
CHIP_ERASE == <<172, 128, 0, 0>>
READ_SIGNATURE == <<48, 0, 0, 0>>
READ_FLASH_LOW == <<32, 0, 0, 0>>
READ_EEPROM == <<160, 0, 0, 0>>
READ_LOW_FUSE == <<80, 0, 0, 0>>
READ_HIGH_FUSE == <<88, 8, 0, 0>>
READ_EXTENDED_FUSE == <<80, 8, 0, 0>>
READ_LOCK == <<88, 0, 0, 0>>

\* specs::Specs.  main.rs opens the session with the ATMEGA_32 table; the
\* memories are scaled down to MemPages pages of 1..MaxPageSize bytes (the
\* table's sizes are whole multiples of its page sizes).
Memory(page_size) ==
    [start |-> 0, size |-> MemPages * page_size, page_size |-> page_size]

Specs(flash_page, eeprom_page, reset_polarity) ==
    [timeout |-> 200, stab_delay |-> 100, cmd_exe_delay |-> 25,
     synch_loops |-> 32, byte_delay |-> 0, pool_value |-> 83,
     pool_index |-> 3, pre_delay |-> 1, post_delay |-> 2,
     reset_polarity |-> reset_polarity, erase_poll_method |-> 0, erase_delay |-> 10,
     fuse_poll_index |-> 4, lock_poll_index |-> 5, signature_poll_index |-> 6,
     flash |-> Memory(flash_page), eeprom |-> Memory(eeprom_page)]

\* bool as u8
bool_into_u8(b) == IF b THEN 1 ELSE 0

---------------------------------------------------------------------------
(* The device and the link: what may come back for one frame sent *)

\* A frame as a device puts it on the wire; flip # 0 damages its checksum.
Frame(start, seq, token, body, flip) ==
    LET h == <<start, seq, Len(body) \div 256, Len(body) % 256, token>> \o body
    IN  Append(h, Xor(XorAll(h), flip))

\* Data bytes a device returns.
DataBytes == {30, 255}

\* The sequence number of the frame before this one.
StaleSeq(seq) == (seq + 255) % 256

\* An answer id that is not cmd.
OtherCmd(cmd) == (cmd + 1) % 256

\* The byte sequences that may arrive in answer to the frame (seq, cmd).
\* payloads: what may follow <<cmd, status>> in an accepted answer; full: one
\* of them, used in the damaged answers.
PlainWires(seq, cmd, payloads, full) ==
    {<<>>, <<27, seq, 0, 2, 14>>, <<27, seq, 1, 20, 14>>}
      \cup {Frame(27, seq, 14, <<cmd, CmdOk>> \o p, 0) : p \in payloads}
      \cup {Frame(27, sq, 14, <<c, st>> \o full, f) :
              sq \in {seq, StaleSeq(seq)}, c \in {cmd, OtherCmd(cmd)},
              st \in {CmdOk, CmdFailed}, f \in {0, 1}}
      \cup {Frame(27, seq, 14, <<cmd, CmdTimeout>> \o full, 0),
            Frame(27, seq, 14, <<>>, 0),
            Frame(27, seq, 14, <<cmd>>, 0),
            Frame(27, StaleSeq(seq), 14, <<>>, 0)}

\* The same, and answers with another start marker or another token: two that
\* are otherwise in order, one with a stale sequence number, one that refuses.
Wires(seq, cmd, payloads, full) ==
    PlainWires(seq, cmd, payloads, full)
      \cup {Frame(0, seq, 14, <<cmd, CmdOk>> \o full, 0),
            Frame(27, seq, 0, <<cmd, CmdOk>> \o full, 0),
            Frame(0, StaleSeq(seq), 14, <<cmd, CmdOk>> \o full, 0),
            Frame(27, seq, 0, <<cmd, CmdFailed>> \o full, 0)}

\* One exchange as the port sees it: whether write_all and flush succeed, and
\* the bytes that arrive before the read timeout.
\* The poller's many exchanges take a failed write, silence, the accepted
\* answer and a refusal.
Replies(seq, cmd, payloads, full) ==
    IF caller = "poller"
    THEN {[write |-> FALSE, wire |-> <<>>], [write |-> TRUE, wire |-> <<>>],
          [write |-> TRUE, wire |-> Frame(27, seq, 14, <<cmd, CmdOk>> \o full, 0)],
          [write |-> TRUE, wire |-> Frame(27, seq, 14, <<cmd, CmdFailed>> \o full, 0)]}
    ELSE {[write |-> FALSE, wire |-> <<>>]}
           \cup {[write |-> TRUE, wire |-> w] :
                   w \in Wires(seq, cmd, payloads, full)}

\* The exchanges of a paged read, whose pages multiply: the plain answers.
PageReplies(seq, cmd, payloads, full) ==
    {[write |-> FALSE, wire |-> <<>>]}
      \cup {[write |-> TRUE, wire |-> w] :
              w \in PlainWires(seq, cmd, payloads, full)}

NoPayload == {<<>>}
BytePayloads == {<<>>} \cup {<<d>> : d \in DataBytes}
\* Pages a device returns: 0xFF throughout, the bytes 1, 2, ... in order, and
\* a page one byte short.
FullPage(size) == [i \in 1..size |-> 30]
PagePayloads(size) ==
    {[i \in 1..size |-> 255], [i \in 1..size |-> i],
     [i \in 1..(size - 1) |-> 30]}

STK500_2 == <<83, 84, 75, 53, 48, 48, 95, 50>>
AVRISP_2 == <<65, 86, 82, 73, 83, 80, 95, 50>>
FOO_BAR == <<70, 79, 79, 95, 66, 65, 82>>
SignOnPayloads ==
    {<<>>, <<0>>, <<8>> \o STK500_2, <<8>> \o AVRISP_2, <<7>> \o FOO_BAR,
     <<1, 255>>, <<2, 195, 169>>, <<2, 195, 40>>}

---------------------------------------------------------------------------
(* STK500v2: the transport session *)

\* The checks with the answer id looked at before the sequence number.
validate_answer_id_first(seq, cmd, read_msg) ==
    LET b == body_slice(read_msg)
    IN  IF Len(b) < 1 THEN Panic
        ELSE IF cmd # b[1] THEN Err(AnswerIdError)
        ELSE IF seq # get_sequence(read_msg) THEN Err(SequenceError)
        ELSE IF Len(b) < 2 THEN Panic
        ELSE IF b[2] # CmdOk THEN Err(StatusError)
        ELSE Ok(read_msg)

\* The checks with the status looked at before the answer id.
validate_status_before_answer_id(seq, cmd, read_msg) ==
    LET b == body_slice(read_msg)
    IN  IF seq # get_sequence(read_msg) THEN Err(SequenceError)
        ELSE IF Len(b) < 2 THEN Panic
        ELSE IF b[2] # CmdOk THEN Err(StatusError)
        ELSE IF cmd # b[1] THEN Err(AnswerIdError)
        ELSE Ok(read_msg)

\* The checks with only the command-failed status (0xC0) refused.
validate_only_failed_status(seq, cmd, read_msg) ==
    LET b == body_slice(read_msg)
    IN  IF seq # get_sequence(read_msg) THEN Err(SequenceError)
        ELSE IF Len(b) < 1 THEN Panic
        ELSE IF cmd # b[1] THEN Err(AnswerIdError)
        ELSE IF Len(b) < 2 THEN Panic
        ELSE IF b[2] = CmdFailed THEN Err(StatusError)
        ELSE Ok(read_msg)

\* The checks command() makes on the message read (lines 335-344).  Indexing
\* body_slice() past its end panics.
validate(seq, cmd, read_msg) ==
    LET b == body_slice(read_msg)
    IN  IF seq # get_sequence(read_msg) THEN Err(SequenceError)
        ELSE IF Len(b) < 1 THEN Panic
        ELSE IF cmd # b[1] THEN Err(AnswerIdError)
        ELSE IF Len(b) < 2 THEN Panic
        ELSE IF b[2] # CmdOk THEN Err(StatusError)
        ELSE Ok(read_msg)

\* command() that sends the frame a second time, under the next sequence
\* number, when the first exchange failed.
command_retries_once(gen, body, dev) ==
    LET n == next(gen)
        seq == n.ret.val
        sent_msg == Message_new(seq, body)
        read_msg == read_message(dev.wire)
        result == IF ~dev.write THEN Err(Io("WriteFailed"))
                  ELSE IF read_msg.tag # "Ok" THEN read_msg
                  ELSE validate(seq, body[1], read_msg.val)
    IN  IF Len(body) = 0 \/ sent_msg.tag = "Panic"
        THEN [gen |-> n.gen, frame |-> <<>>, writes |-> 0, reads |-> 0,
              returned |-> Panic, result |-> Panic]
        ELSE IF result.tag = "Err"
        THEN [gen |-> next(n.gen).gen, frame |-> as_slice(sent_msg.val),
              writes |-> 2, reads |-> IF dev.write THEN 2 ELSE 0,
              returned |-> result, result |-> result]
        ELSE [gen |-> n.gen, frame |-> as_slice(sent_msg.val),
              writes |-> 1, reads |-> 1,
              returned |-> result, result |-> result]

\* command() that takes its sequence number back when the exchange failed.
command_reuses_sequence(gen, body, dev) ==
    LET n == next(gen)
        seq == n.ret.val
        sent_msg == Message_new(seq, body)
        read_msg == read_message(dev.wire)
        result == IF ~dev.write THEN Err(Io("WriteFailed"))
                  ELSE IF read_msg.tag # "Ok" THEN read_msg
                  ELSE validate(seq, body[1], read_msg.val)
    IN  IF Len(body) = 0 \/ sent_msg.tag = "Panic"
        THEN [gen |-> n.gen, frame |-> <<>>, writes |-> 0, reads |-> 0,
              returned |-> Panic, result |-> Panic]
        ELSE [gen |-> IF result.tag = "Err" THEN gen ELSE n.gen,
              frame |-> as_slice(sent_msg.val),
              writes |-> 1, reads |-> IF dev.write THEN 1 ELSE 0,
              returned |-> result, result |-> result]

\* STK500v2::command(body), with gen the session's sequencer and dev what the
\* port does during the call.  Gives the sequencer afterwards, the frame handed
\* to write_all, how often write_message and read_message were called, and
\* what command() returned; result starts as that and becomes what the calling
\* operation makes of it.  `let cmd = body[0]` panics on an empty body and
\* Message::new on one of more than MAX_BODY_SIZE bytes, before anything is
\* written; a failed write_message returns before read_message is called.
command(gen, body, dev) ==
    LET n == next(gen)
        seq == n.ret.val
        sent_msg == Message_new(seq, body)
        read_msg == read_message(dev.wire)
        result == IF ~dev.write THEN Err(Io("WriteFailed"))
                  ELSE IF read_msg.tag # "Ok" THEN read_msg
                  ELSE validate(seq, body[1], read_msg.val)
    IN  IF Len(body) = 0 \/ sent_msg.tag = "Panic"
        THEN [gen |-> n.gen, frame |-> <<>>, writes |-> 0, reads |-> 0,
              returned |-> Panic, result |-> Panic]
        ELSE [gen |-> n.gen, frame |-> as_slice(sent_msg.val),
              writes |-> 1, reads |-> IF dev.write THEN 1 ELSE 0,
              returned |-> result, result |-> result]

\* What a caller of command() makes of its result with `?`: v when it is Ok.
Map(c, v) ==
    [c EXCEPT !.result = IF c.result.tag = "Ok" THEN v ELSE c.result]

\* Ok(())
Unit == Ok(<<>>)

\* msg.body_slice()[2]
body_byte_2(msg) ==
    IF Len(body_slice(msg)) < 3 THEN Panic ELSE Ok(body_slice(msg)[3])

\* STK500v2::set_param
set_param(gen, param, value, dev) ==
    LET check(msg) ==
          IF body_slice(msg)[1] # SetParameter THEN Err(AnswerIdError)
          ELSE IF body_slice(msg)[2] # CmdOk THEN Err(StatusError)
          ELSE Ok(<<>>)
        k == command(gen, <<SetParameter, param, value>>, dev)
    IN  Map(k, check(k.result.val))

\* std::string::String::from_utf8: is s[i..] well-formed UTF-8?
IsCont(s, i) == i <= Len(s) /\ s[i] >= 128 /\ s[i] <= 191

RECURSIVE Utf8From(_, _)
Utf8From(s, i) ==
    IF i > Len(s) THEN TRUE
    ELSE LET b == s[i]
         IN  IF b < 128 THEN Utf8From(s, i + 1)
             ELSE IF b >= 194 /\ b <= 223
               THEN IsCont(s, i + 1) /\ Utf8From(s, i + 2)
             ELSE IF b >= 224 /\ b <= 239
               THEN /\ IsCont(s, i + 1) /\ IsCont(s, i + 2)
                    /\ (b = 224 => s[i + 1] >= 160)
                    /\ (b = 237 => s[i + 1] <= 159)
                    /\ Utf8From(s, i + 3)
             ELSE IF b >= 240 /\ b <= 244
               THEN /\ IsCont(s, i + 1) /\ IsCont(s, i + 2) /\ IsCont(s, i + 3)
                    /\ (b = 240 => s[i + 1] >= 144)
                    /\ (b = 244 => s[i + 1] <= 143)
                    /\ Utf8From(s, i + 4)
             ELSE FALSE

\* The conversion that takes any bytes for text.
from_utf8_unchecked(bytes) == Ok(bytes)

from_utf8(bytes) ==
    IF Utf8From(bytes, 1) THEN Ok(bytes) ELSE Err([kind |-> "FromUtf8Error"])

\* TryFrom<String> for Variant
Variant_try_from(string) ==
    IF string = STK500_2 THEN Ok("STK500_V2")
    ELSE IF string = AVRISP_2 THEN Ok("AVRISP_2")
    ELSE Err([kind |-> "UnknownProgrammer"])

\* STK500v2::read_programmer_signature
read_programmer_signature(gen, dev) ==
    LET variant(msg) ==
          IF Len(body_slice(msg)) < 3 THEN Panic
          ELSE LET text == from_utf8(Slice(body_slice(msg), 3, Len(body_slice(msg))))
               IN  IF text.tag = "Ok" THEN Variant_try_from(text.val) ELSE text
        k == command(gen, <<SignOn>>, dev)
    IN  Map(k, variant(k.result.val))

\* The enter-ISP-mode command with the poll value and the poll index swapped.
enter_isp_bytes_swaps_poll(sp) ==
    <<EnterIspMode, sp.timeout, sp.stab_delay, sp.cmd_exe_delay, sp.synch_loops,
      sp.byte_delay, sp.pool_index, sp.pool_value>> \o PROGRAMMING_ENABLE

\* The enter-ISP-mode command of try_into.
enter_isp_bytes(sp) ==
    <<EnterIspMode, sp.timeout, sp.stab_delay, sp.cmd_exe_delay, sp.synch_loops,
      sp.byte_delay, sp.pool_value, sp.pool_index>> \o PROGRAMMING_ENABLE

---------------------------------------------------------------------------
(* IspMode *)

\* IspMode::load_address
load_address(gen, address, dev) ==
    LET be == <<(address \div 16777216) % 256, (address \div 65536) % 256,
                (address \div 256) % 256, address % 256>>
    IN  Map(command(gen, <<LoadAddress>> \o be, dev), Unit)

\* The payload read_flash_command and read_eeprom_command copy out:
\* msg.body_slice()[data_offset..(size + data_offset)]
page_data(msg, size) ==
    IF Len(body_slice(msg)) < size + 2 THEN Panic
    ELSE Ok(Slice(body_slice(msg), 2, size + 2))

\* The page command that passes a page of 0xFF on when its exchange failed.
read_flash_command_ignores_error(gen, size, dev) ==
    LET size_bytes == to_be_bytes(size)
        k == command(gen, <<ReadFlash, size_bytes[1], size_bytes[2],
                            READ_FLASH_LOW[1]>>, dev)
    IN  IF k.result.tag = "Err" THEN [k EXCEPT !.result = Ok([i \in 1..size |-> 255])]
        ELSE Map(k, page_data(k.result.val, size))

\* IspMode::read_flash_command; Ok carries the bytes copied into the buffer.
read_flash_command(gen, size, dev) ==
    LET size_bytes == to_be_bytes(size)
        k == command(gen, <<ReadFlash, size_bytes[1], size_bytes[2],
                            READ_FLASH_LOW[1]>>, dev)
    IN  Map(k, page_data(k.result.val, size))

\* IspMode::read_eeprom_command
read_eeprom_command(gen, size, dev) ==
    LET size_bytes == to_be_bytes(size)
        k == command(gen, <<ReadEeprom, size_bytes[1], size_bytes[2],
                            READ_EEPROM[1]>>, dev)
    IN  Map(k, page_data(k.result.val, size))

\* The page command replaced by another load-address.
page_command_reloads_address(cmd, gen, size, dev) ==
    load_address(gen, size, dev)

\* The page command of a read(): FlashRead::read sends read-flash,
\* EEPROMRead::read sends read-eeprom.
page_command(cmd, gen, size, dev) ==
    IF cmd = ReadFlash THEN read_flash_command(gen, size, dev)
    ELSE read_eeprom_command(gen, size, dev)

\* IspMode::read_fuse
read_fuse(gen, sp, cmd, dev) ==
    LET k == command(gen, <<ReadFuse, sp.fuse_poll_index>> \o cmd, dev)
    IN  Map(k, body_byte_2(k.result.val))

\* The fuse reads with the high fuse asked for first.
FuseCommands_high_first == <<READ_HIGH_FUSE, READ_LOW_FUSE, READ_EXTENDED_FUSE>>

\* The three read_fuse calls of get_fuses, in the order the struct literal
\* evaluates them.
FuseCommands == <<READ_LOW_FUSE, READ_HIGH_FUSE, READ_EXTENDED_FUSE>>

\* The read-signature command that asks for address 0 every time.
signature_bytes_address_zero(sp, addr) ==
    <<ReadSignature, sp.signature_poll_index, READ_SIGNATURE[1],
      READ_SIGNATURE[2], 0, READ_SIGNATURE[4]>>

\* From<[u8; 3]> for Signature
Signature_from(bytes) == [bytes |-> <<bytes[1], bytes[2], bytes[3]>>]

\* The read-signature command of get_mcu_signature for one address.
signature_bytes(sp, addr) ==
    <<ReadSignature, sp.signature_poll_index, READ_SIGNATURE[1],
      READ_SIGNATURE[2], addr, READ_SIGNATURE[4]>>

\* The loop `for addr in (0..len).step_by(size)` of read(), once the bytes
\* before addr are done: finished, a panic (step_by(0); the range
\* buffer[addr..addr + size] past the end), or another page to read.
Running == [tag |-> "Running"]

\* The loop that stops before a last, partial page and reports success.
next_page_skips_partial(len, addr, size) ==
    IF size = 0 THEN Panic
    ELSE IF addr + size > len THEN Ok(<<>>)
    ELSE Running

next_page(len, addr, size) ==
    IF size = 0 THEN Panic
    ELSE IF addr >= len THEN Ok(<<>>)
    ELSE IF addr + size > len THEN Panic
    ELSE Running

\* The copy that always lands at the start of the buffer.
copy_page_at_start(buffer, addr, data) ==
    data \o Slice(buffer, Len(data), Len(buffer))

\* buffer[addr..addr + size].copy_from_slice(data)
copy_page(buffer, addr, data) ==
    Slice(buffer, 0, addr) \o data \o Slice(buffer, addr + Len(data), Len(buffer))

---------------------------------------------------------------------------
(* main.rs: truncate *)

\* No image is held.
NoImage == [stage |-> "none", read |-> <<>>, bytes |-> <<>>, file |-> <<>>]

None == [some |-> FALSE, val |-> 0]
Some(v) == [some |-> TRUE, val |-> v]

\* bytes.iter().rposition(|&x| x != 0xff): the index, from 0, of the last
\* byte that is not 0xFF.
rposition_not_ff(bytes) ==
    LET hits == {i \in 1..Len(bytes) : bytes[i] # 255}
    IN  IF hits = {} THEN None
        ELSE Some((CHOOSE i \in hits : \A j \in hits : j <= i) - 1)

\* truncate(bytes): `Some(0) => 0`, `None => return`, `Some(x) => x + 1`, then
\* bytes.truncate(end).
truncate(bytes) ==
    LET found == rposition_not_ff(bytes)
    IN  IF found = Some(0) THEN SubSeq(bytes, 1, 0)
        ELSE IF found = None THEN bytes
        ELSE SubSeq(bytes, 1, found.val + 1)

---------------------------------------------------------------------------
(* The caller: any client of the public API, or main() *)

\* An operation: its name, the number of commands it has made, its result so
\* far, what it has gathered (acc), and for a read() the length of the
\* destination it was given.
NoOp == [name |-> "none", step |-> 0, result |-> Ok(<<>>), acc |-> <<>>,
         len |-> 0]

\* main() calls these in this order and returns at the first error.
AfterMain(pos) ==
    CASE pos = "try_into" -> "get_fuses"
      [] pos = "get_fuses" -> "get_lock_byte"
      [] pos = "get_lock_byte" -> "get_mcu_signature"
      [] pos = "get_mcu_signature" -> "flash_read"
      [] pos = "flash_read" -> "eeprom_read"
      [] pos = "eeprom_read" -> "close"
      [] pos = "close" -> "returned_ok"

\* The callers that hold on to the session after an error.
IsClient == caller \in {"client", "poller"}

\* What the poller calls next: sign_on until it has sent PollerSignOns
\* commands, then try_into, then get_lock_byte, whatever each returned, and
\* close after MaxCalls commands.
PollerNext ==
    IF session = "Normal"
    THEN IF calls < PollerSignOns THEN "sign_on" ELSE "try_into"
    ELSE IF calls < MaxCalls THEN "get_lock_byte" ELSE "close"

\* May operation `name` be called now on a session in state sess?
CanStart(name, sess) ==
    /\ op.result.tag \notin {"Running", "Panic"}
    /\ session = sess
    /\ \/ caller = "client" /\ calls < MaxSent
       \/ caller = "poller" /\ name = PollerNext
       \/ caller = name

InProgress(name) == op.name = name /\ op.result.tag = "Running"

\* The operation to continue, or a fresh one.
Current(name) == IF InProgress(name) THEN op ELSE [NoOp EXCEPT !.name = name]

\* The caller after an operation gave r: main() goes on after Ok and returns
\* the error after Err.
CallerAfter(r) ==
    IF IsClient \/ r.tag \in {"Running", "Panic"} THEN caller
    ELSE IF r.tag = "Ok" THEN AfterMain(caller)
    ELSE "returned_err"

\* The session after a &mut self operation gave r: the caller keeps it, and
\* main(), returning the error, drops it.
SessionAfter(r) ==
    IF ~IsClient /\ r.tag = "Err" THEN "Dropped" ELSE session

\* The conversion that hands out an IspMode whatever the two commands gave.
try_into_keeps_session_on_error(r) ==
    IF r.tag = "Running" THEN session ELSE "IspMode"

\* try_into(mut self): self is moved in; Ok(IspMode::new(self)) hands it back
\* inside the IspMode, an error drops it.
try_into_session(r) ==
    IF r.tag = "Ok" THEN "IspMode"
    ELSE IF r.tag = "Err" THEN "Dropped"
    ELSE session

\* command() was called by operation `name`: the sequencer moved on and the
\* call is on record with the frame handed to write_all, what the port did,
\* the number of frames written and of answers read,
\* what command() returned (the message of an Ok left out), the number of
\* calls made before it, and the session and `entered` as they were.
Exchanged(name, c, dev) ==
    /\ sequencer' = c.gen
    /\ sent' = Append(IF InProgress(name) THEN sent ELSE <<>>,
                      [frame |-> c.frame, dev |-> dev,
                       writes |-> c.writes, reads |-> c.reads,
                       returned |-> IF c.returned.tag = "Ok" THEN [tag |-> "Ok"]
                                    ELSE c.returned,
                       k |-> calls, session |-> session, entered |-> entered])
    /\ calls' = calls + 1
    /\ entered' = (entered \/ (c.frame[6] = EnterIspMode /\ c.returned.tag = "Ok"))

\* STK500v2::read_programmer_signature, called on a Normal session.
sign_on ==
    /\ CanStart("sign_on", "Normal")
    /\ \E dev \in Replies(sequencer.count, SignOn, SignOnPayloads, <<8>> \o STK500_2) :
         LET c == read_programmer_signature(sequencer, dev)
         IN  /\ Exchanged("sign_on", c, dev)
             /\ op' = [NoOp EXCEPT !.name = "sign_on", !.step = 1,
                                   !.result = c.result]
             /\ session' = SessionAfter(c.result)
             /\ caller' = CallerAfter(c.result)
    /\ UNCHANGED <<codec, nth, specs, image>>

\* TryInto<IspMode> for STK500v2: set_param(ResetPolarity), then the
\* enter-ISP-mode command.
try_into ==
    /\ CanStart("try_into", "Normal") \/ InProgress("try_into")
    /\ LET cur == Current("try_into")
       IN  \E dev \in Replies(sequencer.count,
                             IF cur.step = 0 THEN SetParameter ELSE EnterIspMode,
                             NoPayload, <<>>) :
             LET c == IF cur.step = 0
                      THEN set_param(sequencer, ResetPolarity,
                                     bool_into_u8(specs.reset_polarity), dev)
                      ELSE Map(command(sequencer, enter_isp_bytes(specs), dev), Unit)
                 r == IF c.result.tag = "Ok" /\ cur.step = 0 THEN Running
                      ELSE c.result
             IN  /\ Exchanged("try_into", c, dev)
                 /\ op' = [cur EXCEPT !.step = cur.step + 1,
                                      !.result = r]
                 /\ session' = try_into_session(r)
                 /\ caller' = CallerAfter(r)
    /\ UNCHANGED <<codec, nth, specs, image>>

\* AVRFuseGet::get_fuses: read_fuse for low, high, extended; the first error
\* ends it.
get_fuses ==
    /\ CanStart("get_fuses", "IspMode") \/ InProgress("get_fuses")
    /\ LET cur == Current("get_fuses")
       IN  \E dev \in Replies(sequencer.count, ReadFuse, BytePayloads, <<30>>) :
             LET c == read_fuse(sequencer, specs, FuseCommands[cur.step + 1], dev)
                 acc == IF c.result.tag = "Ok" THEN Append(cur.acc, c.result.val)
                        ELSE cur.acc
                 r == IF c.result.tag # "Ok" THEN c.result
                      ELSE IF cur.step + 1 < 3 THEN Running
                      ELSE Ok([low |-> acc[1], high |-> acc[2], extended |-> acc[3]])
             IN  /\ Exchanged("get_fuses", c, dev)
                 /\ op' = [cur EXCEPT !.step = cur.step + 1,
                                      !.acc = acc, !.result = r]
                 /\ session' = SessionAfter(r)
                 /\ caller' = CallerAfter(r)
    /\ UNCHANGED <<codec, nth, specs, image>>

\* AVRLockByteGet::get_lock_byte
get_lock_byte ==
    /\ CanStart("get_lock_byte", "IspMode")
    /\ \E dev \in Replies(sequencer.count, ReadLock, BytePayloads, <<30>>) :
         LET k == command(sequencer,
                          <<ReadLock, specs.lock_poll_index>> \o READ_LOCK, dev)
             c == Map(k, body_byte_2(k.result.val))
         IN  /\ Exchanged("get_lock_byte", c, dev)
             /\ op' = [NoOp EXCEPT !.name = "get_lock_byte", !.step = 1,
                                   !.result = c.result]
             /\ session' = SessionAfter(c.result)
             /\ caller' = CallerAfter(c.result)
    /\ UNCHANGED <<codec, nth, specs, image>>

\* MCUSignature::get_mcu_signature: one read-signature command per address
\* 0, 1, 2.
get_mcu_signature ==
    /\ CanStart("get_mcu_signature", "IspMode")
         \/ InProgress("get_mcu_signature")
    /\ LET cur == Current("get_mcu_signature")
       IN  \E dev \in Replies(sequencer.count, ReadSignature, BytePayloads, <<30>>) :
             LET k == command(sequencer, signature_bytes(specs, cur.step), dev)
                 c == Map(k, body_byte_2(k.result.val))
                 acc == IF c.result.tag = "Ok" THEN Append(cur.acc, c.result.val)
                        ELSE cur.acc
                 r == IF c.result.tag # "Ok" THEN c.result
                      ELSE IF cur.step + 1 < 3 THEN Running
                      ELSE Ok(Signature_from(acc))
             IN  /\ Exchanged("get_mcu_signature", c, dev)
                 /\ op' = [cur EXCEPT !.step = cur.step + 1,
                                      !.acc = acc, !.result = r]
                 /\ session' = SessionAfter(r)
                 /\ caller' = CallerAfter(r)
    /\ UNCHANGED <<codec, nth, specs, image>>

\* The destination lengths read() is called with: main() passes a vector of
\* the memory's size, a client any slice.
BufferLens(memory) ==
    IF caller = "client" THEN 0..MaxBufferLen ELSE {memory.size}

\* One command of a paged read: load_address(0) first, then one page command
\* per step of the loop.  op.acc is the destination buffer, op.step the
\* number of commands the read has made.
PagedRead(name, cmd, memory) ==
    LET size == memory.page_size
    IN  \/ /\ CanStart(name, "IspMode")
           /\ \E len \in BufferLens(memory) :
                \E dev \in PageReplies(sequencer.count, LoadAddress, NoPayload,
                                       <<>>) :
                  LET c == load_address(sequencer, 0, dev)
                      r == IF c.result.tag # "Ok" THEN c.result
                           ELSE next_page(len, 0, size)
                  IN  /\ Exchanged(name, c, dev)
                      /\ op' = [NoOp EXCEPT !.name = name, !.step = 1,
                                            !.result = r,
                                            !.acc = [i \in 1..len |-> 0],
                                            !.len = len]
                      /\ session' = SessionAfter(r)
                      /\ caller' = CallerAfter(r)
        \/ /\ InProgress(name)
           /\ \E dev \in PageReplies(sequencer.count, cmd, PagePayloads(size),
                                     FullPage(size)) :
                LET addr == (op.step - 1) * size
                    c == page_command(cmd, sequencer, size, dev)
                    r == IF c.result.tag # "Ok" THEN c.result
                         ELSE next_page(op.len, addr + size, size)
                IN  /\ Exchanged(name, c, dev)
                    /\ op' = [op EXCEPT
                                !.step = op.step + 1,
                                !.acc = IF c.result.tag = "Ok"
                                        THEN copy_page(op.acc, addr, c.result.val)
                                        ELSE op.acc,
                                !.result = r]
                    /\ session' = SessionAfter(r)
                    /\ caller' = CallerAfter(r)

\* FlashRead::read
flash_read ==
    /\ PagedRead("flash_read", ReadFlash, specs.flash)
    /\ UNCHANGED <<codec, nth, specs, image>>

\* EEPROMRead::read
eeprom_read ==
    /\ PagedRead("eeprom_read", ReadEeprom, specs.eeprom)
    /\ UNCHANGED <<codec, nth, specs, image>>

\* Erase::erase
erase ==
    /\ CanStart("erase", "IspMode")
    /\ \E dev \in Replies(sequencer.count, ChipErase, NoPayload, <<>>) :
         LET c == Map(command(sequencer,
                              <<ChipErase, specs.erase_delay,
                                specs.erase_poll_method>> \o CHIP_ERASE,
                              dev),
                      Unit)
         IN  /\ Exchanged("erase", c, dev)
             /\ op' = [NoOp EXCEPT !.name = "erase", !.step = 1,
                                   !.result = c.result]
             /\ session' = SessionAfter(c.result)
             /\ caller' = CallerAfter(c.result)
    /\ UNCHANGED <<codec, nth, specs, image>>

\* A close that borrows the session instead of consuming it.
close_keeps_session(r) == session

\* close(mut self) consumes the session whatever the result.
close_session(r) == IF r.tag = "Panic" THEN session ELSE "Closed"

\* Programmer::close: the leave-ISP-mode command.
close ==
    /\ CanStart("close", "IspMode")
    /\ \E dev \in Replies(sequencer.count, LeaveIspMode, NoPayload, <<>>) :
         LET c == Map(command(sequencer,
                              <<LeaveIspMode, specs.pre_delay, specs.post_delay>>,
                              dev),
                      Unit)
         IN  /\ Exchanged("close", c, dev)
             /\ op' = [NoOp EXCEPT !.name = "close", !.step = 1,
                                   !.result = c.result]
             /\ session' = close_session(c.result)
             /\ caller' = CallerAfter(c.result)
    /\ UNCHANGED <<codec, nth, specs, image>>

\* A client lets go of the session it holds.  Neither STK500v2 nor IspMode
\* implements Drop: nothing is sent.
drop ==
    /\ caller = "client"
    /\ op.result.tag \notin {"Running", "Panic"}
    /\ session \in {"Normal", "IspMode"}
    /\ session' = "Dropped"
    /\ UNCHANGED <<codec, sequencer, nth, specs, caller, op, sent, calls, entered, image>>

\* STK500v2::open gave a session with a fresh sequencer; the caller is main()
\* or some other client of the API.
Init ==
    /\ codec = CodecIdle
    /\ nth = <<>>
    /\ sequencer = SequenceGenerator_new
    /\ specs \in {Specs(f, MaxPageSize + 1 - f, f % 2 = 1) : f \in 1..MaxPageSize}
    /\ session = "Normal"
    /\ caller \in {"client", "poller", "try_into"}
    /\ op = NoOp
    /\ sent = <<>>
    /\ calls = 0
    /\ entered = FALSE
    /\ image = NoImage

Next ==
    \/ sign_on
    \/ try_into
    \/ get_fuses
    \/ get_lock_byte
    \/ get_mcu_signature
    \/ flash_read
    \/ eeprom_read
    \/ erase
    \/ close
    \/ drop

Spec == Init /\ [][Next]_vars

\* No session is open.
NoSession ==
    /\ specs = Specs(1, 1, TRUE)
    /\ session = "Dropped"
    /\ caller = "client"
    /\ op = NoOp
    /\ sent = <<>>
    /\ calls = 0
    /\ entered = FALSE

---------------------------------------------------------------------------
(* The codec on its own: build a frame, put it on the wire, read it back *)

ByteSamples == {0, 14, 27, 255}
SeqSamples == {0, 1, 27, 255}
LongLengths == {255, 256, MAX_BODY_SIZE}

Bodies ==
    SeqsUpTo(ByteSamples, MaxShortBody)
      \cup {[i \in 1..n |-> (i * k) % 256] : n \in LongLengths, k \in {1, 255}}

\* What a faulty link does to the trailing byte of a frame.
Flips == {1, 128, 255}

\* Message::new(seq, body)
CodecNew ==
    /\ codec.stage = "idle"
    /\ \E seq \in SeqSamples, body \in Bodies :
         codec' = [codec EXCEPT !.stage = "built", !.seq = seq, !.body = body,
                                !.msg = Message_new(seq, body)]
    /\ UNCHANGED <<sequencer, nth, specs, session, caller, op, sent, calls, entered, image>>

\* write_message: msg.as_slice() is what goes to the port.
CodecWrite ==
    /\ codec.stage = "built"
    /\ codec.msg.tag = "Ok"
    /\ codec' = [codec EXCEPT !.stage = "wire", !.wire = as_slice(codec.msg.val)]
    /\ UNCHANGED <<sequencer, nth, specs, session, caller, op, sent, calls, entered, image>>

\* The link changes the trailing byte of the frame.
CodecCorrupt ==
    /\ codec.stage = "wire"
    /\ ~codec.corrupted
    /\ \E f \in Flips :
         codec' = [codec EXCEPT
                     !.corrupted = TRUE,
                     !.wire = [codec.wire EXCEPT
                                 ![Len(codec.wire)] = Xor(codec.wire[Len(codec.wire)], f)]]
    /\ UNCHANGED <<sequencer, nth, specs, session, caller, op, sent, calls, entered, image>>

\* Frames another party puts on the wire: any start marker, sequence number
\* and token, short bodies and the longest one, the checksum right or damaged.
ForeignFrames ==
    {Frame(st, sq, tk, b, f) :
       st \in {MESSAGE_START, 0}, sq \in {0, 255}, tk \in {TOKEN, 0},
       b \in SeqsUpTo({0, 255}, MaxShortBody)
              \cup {[i \in 1..MAX_BODY_SIZE |-> 255]},
       f \in {0, 128}}

\* The bytes read_message finds on the port were not written by this codec.
CodecReceive ==
    /\ codec.stage = "idle"
    /\ \E w \in ForeignFrames :
         codec' = [codec EXCEPT !.stage = "wire", !.foreign = TRUE, !.wire = w]
    /\ UNCHANGED <<sequencer, nth, specs, session, caller, op, sent, calls, entered, image>>

\* read_message on the bytes of the wire.
CodecRead ==
    /\ codec.stage = "wire"
    /\ codec' = [codec EXCEPT !.stage = "decoded",
                              !.decoded = read_message(codec.wire)]
    /\ UNCHANGED <<sequencer, nth, specs, session, caller, op, sent, calls, entered, image>>

CodecInit ==
    /\ codec = CodecIdle
    /\ sequencer = SequenceGenerator_new
    /\ nth = <<>>
    /\ NoSession
    /\ image = NoImage

CodecNext == CodecNew \/ CodecWrite \/ CodecCorrupt \/ CodecReceive \/ CodecRead

CodecSpec == CodecInit /\ [][CodecNext]_vars

---------------------------------------------------------------------------
(* The sequence generator on its own *)

\* One call of next(); nth records the value returned.
SeqNext ==
    /\ Len(nth) < MaxCalls
    /\ LET r == next(sequencer)
       IN  /\ sequencer' = r.gen
           /\ nth' = Append(nth, r.ret)
    /\ UNCHANGED <<codec, specs, session, caller, op, sent, calls, entered, image>>

SeqInit ==
    /\ codec = CodecIdle
    /\ sequencer = SequenceGenerator_new
    /\ nth = <<>>
    /\ NoSession
    /\ image = NoImage

SeqSpec == SeqInit /\ [][SeqNext]_vars

---------------------------------------------------------------------------
(* flash() of main.rs: the image between read() and dump() *)

\* The images read() may have filled in: erased bytes (0xFF) and others.
Images == SeqsUpTo({0, 1, 255}, MaxImageLen)

\* main.rs flash(): truncate(&mut flash) on the image read() returned.
flash_truncate ==
    /\ image.stage = "read"
    /\ image' = [image EXCEPT !.stage = "truncated", !.bytes = truncate(image.bytes)]
    /\ UNCHANGED <<codec, sequencer, nth, specs, session, caller, op, sent, calls,
                   entered>>

\* main.rs flash(): dump(&mut flash, "flash.bin") writes the bytes left.
flash_dump ==
    /\ image.stage = "truncated"
    /\ image' = [image EXCEPT !.stage = "dumped", !.file = image.bytes]
    /\ UNCHANGED <<codec, sequencer, nth, specs, session, caller, op, sent, calls,
                   entered>>

ImageInit ==
    /\ codec = CodecIdle
    /\ sequencer = SequenceGenerator_new
    /\ nth = <<>>
    /\ NoSession
    /\ \E b \in Images :
         image = [stage |-> "read", read |-> b, bytes |-> b, file |-> <<>>]

ImageNext == flash_truncate \/ flash_dump

ImageSpec == ImageInit /\ [][ImageNext]_vars

---------------------------------------------------------------------------
(* Properties of the codec *)

\* The header the wire format prescribes for (seq, body).
Header(seq, body) ==
    <<27, seq, Len(body) \div 256, Len(body) % 256, 14>>

\* C5: every Message built by Message::new(seq, body) and every Message that
\* decoding accepts has, as its checksum byte, the XOR of all the frame bytes
\* before it (start marker, sequence, the two length bytes, token, body);
\* calc_checksum([2, 55, 22, 78]) is 109.
C5_ChecksumInvariant ==
    /\ calc_checksum(<<2, 55, 22, 78>>) = 109
    /\ (codec.stage # "idle" /\ ~codec.foreign) =>
         /\ codec.msg.tag = "Ok"
         /\ At(codec.msg.val.buffer, 5 + Len(codec.body))
              = XorAll(Header(codec.seq, codec.body) \o codec.body)
    /\ (codec.stage = "decoded" /\ codec.decoded.tag = "Ok") =>
         LET m == codec.decoded.val
             n == At(m.buffer, 2) * 256 + At(m.buffer, 3)
         IN  At(m.buffer, 5 + n) = XorAll(SubSeq(m.buffer, 1, 5 + n))

C5_Witness ==
    /\ codec.stage = "decoded"
    /\ ~codec.foreign
    /\ codec.decoded.tag = "Ok"
    /\ Len(codec.body) = 275

\* C6: the bytes written for Message::new(seq, body), body of 0..275 bytes, are
\* exactly 5 + len(body) + 1 bytes: 0x1B, seq, len_hi, len_lo (big-endian body
\* length), 0x0E, the body in order, the checksum.
C6_WireLayout ==
    (codec.stage = "wire" /\ ~codec.foreign /\ ~codec.corrupted) =>
      /\ Len(codec.wire) = 5 + Len(codec.body) + 1
      /\ SubSeq(codec.wire, 1, 5) = Header(codec.seq, codec.body)
      /\ SubSeq(codec.wire, 6, 5 + Len(codec.body)) = codec.body
      /\ codec.wire[Len(codec.wire)]
           = XorAll(SubSeq(codec.wire, 1, Len(codec.wire) - 1))

C6_Witness ==
    /\ codec.stage = "wire"
    /\ ~codec.foreign
    /\ ~codec.corrupted
    /\ Len(codec.body) = 275
    /\ codec.wire[3] = 1
    /\ codec.wire[4] = 19

\* C7: round trip: for every sequence number and every body of at most 275
\* bytes (the empty one and the 275-byte one included), reading back the frame
\* written for (seq, body) succeeds and gives a Message whose sequence is seq
\* and whose body is body.
C7_RoundTrip ==
    (codec.stage = "decoded" /\ ~codec.foreign /\ ~codec.corrupted) =>
      /\ codec.decoded.tag = "Ok"
      /\ get_sequence(codec.decoded.val) = codec.seq
      /\ body_slice(codec.decoded.val) = codec.body

C7_Witness ==
    /\ codec.stage = "decoded"
    /\ ~codec.foreign
    /\ ~codec.corrupted
    /\ codec.decoded.tag = "Ok"
    /\ Len(codec.body) = 275
    /\ codec.seq = 255

\* C8: decoding a frame whose trailing byte differs from the XOR of all the
\* bytes before it fails with ChecksumError, whatever the body's content and
\* length, and produces no Message.
C8_BadChecksumRejected ==
    (/\ codec.stage = "decoded"
     /\ codec.wire[Len(codec.wire)]
          # XorAll(SubSeq(codec.wire, 1, Len(codec.wire) - 1)))
      => codec.decoded = [tag |-> "Err", err |-> [kind |-> "ChecksumError"]]

C8_Witness ==
    /\ codec.stage = "decoded"
    /\ ~codec.foreign
    /\ codec.corrupted
    /\ codec.wire[Len(codec.wire)] # XorAll(SubSeq(codec.wire, 1, Len(codec.wire) - 1))
    /\ codec.decoded = [tag |-> "Err", err |-> [kind |-> "ChecksumError"]]
    /\ Len(codec.body) = 275

---------------------------------------------------------------------------
(* Properties of the sequence generator *)

\* C4: the generator starts at 0; each next() returns the current count and
\* then adds one modulo 256 (255 wraps to 0), so call number 256 + n returns
\* what call number n returned; next() never fails (it always returns Some).
C4_SequenceWraps ==
    /\ \A k \in 1..Len(nth) : nth[k].some /\ nth[k].val \in 0..255
    /\ Len(nth) >= 1 => nth[1].val = 0
    /\ \A k \in 1..(Len(nth) - 1) :
         nth[k + 1].val = IF nth[k].val = 255 THEN 0 ELSE nth[k].val + 1
    /\ \A k \in 1..(Len(nth) - 256) : nth[k + 256].val = nth[k].val
    /\ Len(nth) >= 1 => sequencer.count = (nth[Len(nth)].val + 1) % 256

C4_Witness ==
    /\ Len(nth) >= 258
    /\ nth[256].val = 255
    /\ nth[257].val = 0
    /\ nth[258].val = 1

---------------------------------------------------------------------------
(* Properties of command() *)

\* The opcode and the sequence number of the frame a call sent.
SentCmd(e) == e.frame[6]
SentSeq(e) == e.frame[2]

\* The length the header of the answer declares.
Declared(e) == e.dev.wire[3] * 256 + e.dev.wire[4]

\* The call was answered by a whole frame of the wire format: five header
\* bytes, a body of the declared length (at most 275 bytes), one trailing byte.
Answered(e) ==
    /\ e.dev.write
    /\ Len(e.dev.wire) >= 5
    /\ Declared(e) <= MAX_BODY_SIZE
    /\ Len(e.dev.wire) = 5 + Declared(e) + 1

AnswerBody(e) == SubSeq(e.dev.wire, 6, 5 + Declared(e))
AnswerSeq(e) == e.dev.wire[2]
AnswerChecksumOk(e) ==
    e.dev.wire[Len(e.dev.wire)] = XorAll(SubSeq(e.dev.wire, 1, Len(e.dev.wire) - 1))

Entries == {sent[i] : i \in 1..Len(sent)}

ErrorOf(kind) == [tag |-> "Err", err |-> [kind |-> kind]]

\* C1: command() checks the answer in a fixed order: checksum, then sequence
\* number, then answer id, then status.  An answer with a bad checksum fails
\* with ChecksumError whatever its sequence, command byte and status; an
\* answer with a good checksum and another sequence number than the one sent
\* fails with SequenceError whatever its command byte and status; the answer
\* id is only faulted once checksum and sequence passed, the status only once
\* the answer id passed too.
C1_CheckOrder ==
    \A e \in Entries :
      Answered(e) =>
        /\ ~AnswerChecksumOk(e) => e.returned = ErrorOf("ChecksumError")
        /\ (AnswerChecksumOk(e) /\ AnswerSeq(e) # SentSeq(e))
             => e.returned = ErrorOf("SequenceError")
        /\ e.returned = ErrorOf("AnswerIdError")
             => AnswerChecksumOk(e) /\ AnswerSeq(e) = SentSeq(e)
        /\ e.returned = ErrorOf("StatusError")
             => /\ AnswerChecksumOk(e) /\ AnswerSeq(e) = SentSeq(e)
                /\ AnswerBody(e)[1] = SentCmd(e)

C1_Witness ==
    \E e \in Entries :
      /\ Answered(e)
      /\ AnswerChecksumOk(e)
      /\ AnswerSeq(e) # SentSeq(e)
      /\ Declared(e) >= 2
      /\ AnswerBody(e)[1] # SentCmd(e)
      /\ AnswerBody(e)[2] # CmdOk
      /\ e.returned = ErrorOf("SequenceError")

\* C2: an answer with a good checksum and the sequence number sent, whose first
\* body byte is not the command byte sent, fails with AnswerIdError whatever
\* its status byte.
C2_AnswerIdMismatch ==
    \A e \in Entries :
      (/\ Answered(e)
       /\ AnswerChecksumOk(e)
       /\ AnswerSeq(e) = SentSeq(e)
       /\ Declared(e) >= 1
       /\ AnswerBody(e)[1] # SentCmd(e))
        => e.returned = ErrorOf("AnswerIdError")

C2_Witness ==
    \E e \in Entries :
      /\ Answered(e)
      /\ AnswerChecksumOk(e)
      /\ AnswerSeq(e) = SentSeq(e)
      /\ Declared(e) >= 2
      /\ AnswerBody(e)[1] # SentCmd(e)
      /\ AnswerBody(e)[2] # CmdOk
      /\ e.returned = ErrorOf("AnswerIdError")

\* The answer passes the checksum, sequence and answer id checks and its
\* status byte is not command-ok.
BadStatus(e) ==
    /\ Answered(e)
    /\ AnswerChecksumOk(e)
    /\ AnswerSeq(e) = SentSeq(e)
    /\ Declared(e) >= 2
    /\ AnswerBody(e)[1] = SentCmd(e)
    /\ AnswerBody(e)[2] # CmdOk

---------------------------------------------------------------------------
(* Properties of the session *)

IspOnly ==
    {LoadAddress, ReadFlash, ReadEeprom, ReadFuse, ReadLock, ReadSignature,
     ChipErase, LeaveIspMode}

\* C9: Normal -> IspMode -> Closed is one-way.  Every ISP-only command
\* (load-address, read-flash, read-eeprom, read-fuse, read-lock,
\* read-signature, chip-erase, leave-ISP-mode) is sent on an IspMode session
\* after an enter-ISP-mode exchange succeeded; sign-on and enter-ISP-mode are
\* sent on a Normal session before it; and once close() has been called
\* nothing is sent: leave-ISP-mode is the last command.
C9_OneWaySession ==
    /\ \A e \in Entries :
         /\ e.session \in {"Normal", "IspMode"}
         /\ SentCmd(e) \in IspOnly => e.entered /\ e.session = "IspMode"
         /\ SentCmd(e) \in {SignOn, EnterIspMode}
              => ~e.entered /\ e.session = "Normal"
    /\ session = "IspMode" => entered
    /\ session = "Normal" => ~entered
    /\ session = "Closed" =>
         /\ entered
         /\ op.name = "close"
         /\ Len(sent) = 1
         /\ SentCmd(sent[1]) = LeaveIspMode
         /\ sent[1].k = calls - 1

C9_Witness ==
    /\ session = "Closed"
    /\ caller = "client"
    /\ calls = 3
    /\ SentCmd(sent[1]) = LeaveIspMode

\* The body of the frame a call sent.
SentBody(e) == SubSeq(e.frame, 6, Len(e.frame) - 1)

\* C11: close() sends exactly one command, leave-ISP-mode with pre_delay and
\* post_delay from Specs.  When that exchange fails with an I/O, checksum,
\* sequence, answer id or status error, close() returns that error as a value;
\* when it succeeds close() returns Ok(()); either way the session is consumed.
C11_CloseSurfacesError ==
    op.name = "close" =>
      /\ Len(sent) = 1
      /\ SentBody(sent[1]) = <<LeaveIspMode, specs.pre_delay, specs.post_delay>>
      /\ sent[1].session = "IspMode"
      /\ sent[1].returned.tag = "Ok" => op.result = Ok(<<>>)
      /\ sent[1].returned.tag = "Err" =>
           /\ op.result = sent[1].returned
           /\ op.result.err.kind \in {"Io", "ChecksumError", "SequenceError",
                                      "AnswerIdError", "StatusError"}
      /\ sent[1].returned.tag \in {"Ok", "Err"} => session = "Closed"

C11_Witness ==
    /\ op.name = "close"
    /\ sent[1].returned = ErrorOf("StatusError")
    /\ op.result = ErrorOf("StatusError")
    /\ session = "Closed"

\* C12: entering ISP mode makes two exchanges in this order: set-parameter
\* (reset polarity = specs.reset_polarity), then enter-ISP-mode with the body
\* [timeout, stab_delay, cmd_exe_delay, synch_loops, byte_delay, poll value,
\* poll index, 0xAC, 0x53, 0x00, 0x00].  When the set-parameter exchange fails
\* enter-ISP-mode is not sent; an IspMode session is produced only when both
\* exchanges succeeded.
C12_EnterIspOrder ==
    op.name = "try_into" =>
      /\ Len(sent) \in {1, 2}
      /\ SentBody(sent[1])
           = <<SetParameter, ResetPolarity, IF specs.reset_polarity THEN 1 ELSE 0>>
      /\ Len(sent) = 2 =>
           /\ sent[1].returned.tag = "Ok"
           /\ SentBody(sent[2])
                = <<EnterIspMode, specs.timeout, specs.stab_delay, specs.cmd_exe_delay,
                    specs.synch_loops, specs.byte_delay, specs.pool_value,
                    specs.pool_index, 172, 83, 0, 0>>
      /\ sent[1].returned.tag # "Ok" =>
           /\ Len(sent) = 1
           /\ op.result = sent[1].returned
           /\ session # "IspMode"
      /\ (op.result.tag = "Ok" \/ session = "IspMode") =>
           /\ Len(sent) = 2
           /\ sent[1].returned.tag = "Ok"
           /\ sent[2].returned.tag = "Ok"
      /\ (Len(sent) = 2 /\ sent[2].returned.tag = "Ok") => op.result = Ok(<<>>)

C12_Witness ==
    /\ op.name = "try_into"
    /\ session = "IspMode"
    /\ Len(sent) = 2
    /\ ~specs.reset_polarity
    /\ SentBody(sent[1]) = <<SetParameter, ResetPolarity, 0>>

\* The paged reads, the page size of each and the page command of each.
ReadOps == {"flash_read", "eeprom_read"}
PageSize ==
    IF op.name = "flash_read" THEN specs.flash.page_size
    ELSE specs.eeprom.page_size
PageCommand ==
    IF op.name = "flash_read"
    THEN <<ReadFlash, PageSize \div 256, PageSize % 256, 32>>
    ELSE <<ReadEeprom, PageSize \div 256, PageSize % 256, 160>>

\* C13: for a page size P > 0 and a buffer whose length L is a multiple of P, a
\* successful flash read, and likewise a successful EEPROM read, has issued
\* exactly L / P read sub-commands, each asking for P bytes, and body bytes
\* 2 .. P + 2 of the i-th answer are in buffer[i * P .. (i + 1) * P]: the
\* pages are disjoint, in buffer order, and cover the buffer.
C13_PagedRead ==
    (/\ op.name \in ReadOps
     /\ op.result.tag = "Ok"
     /\ PageSize > 0
     /\ op.len % PageSize = 0)
      => /\ Len(op.acc) = op.len
         /\ Len(sent) = 1 + op.len \div PageSize
         /\ \A i \in 1..(op.len \div PageSize) :
              /\ SentBody(sent[i + 1]) = PageCommand
              /\ sent[i + 1].returned.tag = "Ok"
              /\ SubSeq(op.acc, (i - 1) * PageSize + 1, i * PageSize)
                   = SubSeq(AnswerBody(sent[i + 1]), 3, PageSize + 2)

C13_Witness ==
    /\ op.name = "flash_read"
    /\ op.result.tag = "Ok"
    /\ PageSize = 2
    /\ op.len = 4 * PageSize
    /\ Len(sent) = 5
    /\ op.acc = <<255, 255, 1, 2, 1, 2, 255, 255>>

\* C19: each flash read and each EEPROM read loads the start address exactly
\* once: load-address (address 0) is the first command of the read, and every
\* command after it is the page command of the read, never a load-address.
C19_LoadAddressOnce ==
    op.name \in ReadOps =>
      /\ Len(sent) >= 1
      /\ SentBody(sent[1]) = <<LoadAddress, 0, 0, 0, 0>>
      /\ \A i \in 2..Len(sent) :
           /\ SentCmd(sent[i]) # LoadAddress
           /\ SentBody(sent[i]) = PageCommand
           /\ sent[i - 1].returned.tag = "Ok"

C19_Witness ==
    /\ op.name = "eeprom_read"
    /\ op.result.tag = "Ok"
    /\ Len(sent) = 4
    /\ SentCmd(sent[1]) = LoadAddress
    /\ SentCmd(sent[4]) = ReadEeprom

\* C20: a flash or EEPROM read given a destination whose length is not a
\* multiple of the page size never returns success and never writes outside
\* the destination: it reads the whole pages that fit, asks for no partial
\* page, and then ends without a result; it never reports a complete read.
C20_PartialPageRefused ==
    (/\ op.name \in ReadOps
     /\ PageSize > 0
     /\ op.len % PageSize # 0)
      => /\ op.result.tag # "Ok"
         /\ Len(op.acc) = op.len
         /\ Len(sent) <= 1 + op.len \div PageSize
         /\ op.result.tag = "Running" => Len(sent) - 1 < op.len \div PageSize
         /\ (\A i \in 1..Len(sent) : sent[i].returned.tag = "Ok")
              => op.result.tag \in {"Running", "Panic"}

C20_Witness ==
    /\ op.name = "flash_read"
    /\ PageSize = 2
    /\ op.len = 3
    /\ op.result.tag = "Panic"
    /\ Len(sent) = 2
    /\ sent[2].returned.tag = "Ok"
    /\ op.acc = <<255, 255, 0>>

\* C14: get_mcu_signature makes exactly 3 read-signature round trips, with
\* address byte 0, then 1, then 2, and returns the Signature (b0, b1, b2),
\* b_k being body[2] of the answer of trip k; when trip k fails its error is
\* returned and no later trip is made.
C14_SignatureTrips ==
    op.name = "get_mcu_signature" =>
      /\ Len(sent) \in 1..3
      /\ \A i \in 1..Len(sent) :
           /\ SentBody(sent[i])
                = <<ReadSignature, specs.signature_poll_index, 48, 0, i - 1, 0>>
           /\ i < Len(sent) => sent[i].returned.tag = "Ok"
           /\ sent[i].returned.tag = "Err" => op.result = sent[i].returned
      /\ op.result.tag = "Running" => Len(sent) < 3
      /\ op.result.tag = "Ok" =>
           /\ Len(sent) = 3
           /\ sent[3].returned.tag = "Ok"
           /\ op.result.val.bytes
                = <<AnswerBody(sent[1])[3], AnswerBody(sent[2])[3],
                    AnswerBody(sent[3])[3]>>
      /\ (/\ Len(sent) = 3
          /\ sent[3].returned.tag = "Ok"
          /\ \A i \in 1..3 : Declared(sent[i]) >= 3)
           => op.result.tag = "Ok"

C14_Witness ==
    /\ op.name = "get_mcu_signature"
    /\ op.result = Ok([bytes |-> <<30, 30, 255>>])
    /\ Len(sent) = 3
    /\ SentBody(sent[3])[5] = 2

\* Texts that are well-formed UTF-8 and name no programmer ("FOO_BAR", the
\* empty text, U+00E9), and byte strings that are not UTF-8.
OtherTexts == {FOO_BAR, <<>>, <<195, 169>>}
NotUtf8 == {<<255>>, <<195, 40>>}

\* C15: sign_on maps the text that ends the sign-on answer (body bytes 3..) to
\* a programmer variant: "STK500_2" gives the STK500 v2 variant, "AVRISP_2"
\* the AVRISP 2 variant, any other well-formed UTF-8 text (e.g. "FOO_BAR")
\* the unknown-programmer error, and bytes that are not UTF-8 the
\* text-decoding error.
C15_SignOnVariant ==
    (/\ op.name = "sign_on"
     /\ sent[1].returned.tag = "Ok"
     /\ Declared(sent[1]) >= 3)
      => LET text == SubSeq(AnswerBody(sent[1]), 4, Declared(sent[1]))
         IN  /\ text \in {STK500_2, AVRISP_2} \cup OtherTexts \cup NotUtf8
             /\ text = STK500_2 => op.result = Ok("STK500_V2")
             /\ text = AVRISP_2 => op.result = Ok("AVRISP_2")
             /\ text \in OtherTexts
                  => op.result = ErrorOf("UnknownProgrammer")
             /\ text \in NotUtf8 => op.result = ErrorOf("FromUtf8Error")

C15_Witness ==
    /\ op.name = "sign_on"
    /\ sent[1].returned.tag = "Ok"
    /\ SubSeq(AnswerBody(sent[1]), 4, Declared(sent[1])) = <<195, 40>>
    /\ op.result = ErrorOf("FromUtf8Error")

\* C16: strict lockstep without retries.  Each command() call writes exactly
\* one frame and then reads at most one answer (none when the write failed)
\* before it returns; within an operation the next frame is written only after
\* the call before it returned Ok; after any failure the call returns the
\* error at once and the operation ends with it, nothing being sent or read
\* again.
C16_Lockstep ==
    /\ \A i \in 1..Len(sent) :
         /\ sent[i].writes = 1
         /\ sent[i].reads = IF sent[i].dev.write THEN 1 ELSE 0
         /\ sent[i].k = sent[1].k + i - 1
         /\ i < Len(sent) => sent[i].returned.tag = "Ok"
         /\ sent[i].returned.tag = "Err" =>
              /\ i = Len(sent)
              /\ op.result = sent[i].returned
    /\ Len(sent) >= 1 => calls = sent[Len(sent)].k + 1

C16_Witness ==
    /\ op.name = "get_fuses"
    /\ Len(sent) = 2
    /\ sent[1].returned.tag = "Ok"
    /\ sent[2].dev.write
    /\ sent[2].dev.wire = <<>>
    /\ sent[2].reads = 1
    /\ op.result = [tag |-> "Err", err |-> [kind |-> "Io", error |-> "TimedOut"]]

\* C17 as the spec states it: no command() call and no operation ever aborts
\* the process, whatever the device answers; every failure comes back as a
\* tagged error.
C17_NeverAborts ==
    /\ op.result.tag # "Panic"
    /\ \A i \in 1..Len(sent) : sent[i].returned.tag # "Panic"

\* The answers C17 names, each of which ends in a panic: a header that
\* declares more than MAX_BODY_SIZE bytes, a body of fewer than two bytes
\* under a good checksum, and an accepted answer shorter than the payload the
\* operation takes out of it.
C17_OversizeHeaderAborts ==
    /\ Len(sent) >= 1
    /\ sent[Len(sent)].dev.write
    /\ Len(sent[Len(sent)].dev.wire) = HEADER_SIZE
    /\ from_be_bytes(sent[Len(sent)].dev.wire[3], sent[Len(sent)].dev.wire[4])
         > MAX_BODY_SIZE
    /\ sent[Len(sent)].returned.tag = "Panic"

C17_ShortBodyAborts ==
    /\ Len(sent) >= 1
    /\ sent[Len(sent)].dev.write
    /\ read_message(sent[Len(sent)].dev.wire).tag = "Ok"
    /\ Len(body_slice(read_message(sent[Len(sent)].dev.wire).val)) < 2
    /\ sent[Len(sent)].returned.tag = "Panic"

C17_ShortPayloadAborts ==
    /\ op.name \in ReadOps \cup {"get_fuses", "get_mcu_signature"}
    /\ Len(sent) >= 1
    /\ sent[Len(sent)].returned.tag = "Ok"
    /\ op.result.tag = "Panic"
    /\ op.name \in ReadOps => op.len % PageSize = 0

\* C18: the sequence counter advances exactly once per command() call,
\* whether the call succeeds or fails (a failed write included): the k-th call
\* of a session, counted from 0, sends sequence number k mod 256, and the
\* count goes on unbroken when the session passes from normal to ISP mode.
C18_SequencePerCall ==
    /\ sequencer.count = calls % 256
    /\ \A i \in 1..Len(sent) :
         /\ sent[i].frame # <<>> => SentSeq(sent[i]) = sent[i].k % 256
         /\ i > 1 => sent[i].k = sent[i - 1].k + 1
         /\ i = Len(sent) => calls = sent[i].k + 1

\* The 256th and 257th call are the two of try_into: 255, then 0 again; the
\* first call in ISP mode sends 1, its write fails, and the counter is at 2.
C18_Witness ==
    /\ op.name = "get_lock_byte"
    /\ entered
    /\ session = "IspMode"
    /\ sent[1].k = 257
    /\ SentSeq(sent[1]) = 1
    /\ ~sent[1].dev.write
    /\ op.result.tag = "Err"
    /\ sequencer.count = 2

C18_WrapWitness ==
    /\ op.name = "try_into"
    /\ Len(sent) = 2
    /\ sent[1].session = "Normal"
    /\ sent[1].k = 255 /\ SentSeq(sent[1]) = 255
    /\ sent[2].k = 256 /\ SentSeq(sent[2]) = 0
    /\ session = "IspMode"

\* C21: get_fuses sends exactly three read-fuse commands, low, high,
\* extended, each with the fuse poll index of Specs and its own 4-byte opcode,
\* the three opcodes pairwise distinct; it returns {low, high, extended} with
\* each field body[2] of the answer to its command; when one of them fails the
\* error is returned and the read-fuse commands after it are not sent.
C21_FuseOrder ==
    /\ READ_LOW_FUSE # READ_HIGH_FUSE
    /\ READ_LOW_FUSE # READ_EXTENDED_FUSE
    /\ READ_HIGH_FUSE # READ_EXTENDED_FUSE
    /\ op.name = "get_fuses" =>
         /\ Len(sent) \in 1..3
         /\ \A i \in 1..Len(sent) :
              /\ SentBody(sent[i])
                   = <<ReadFuse, specs.fuse_poll_index>>
                       \o <<READ_LOW_FUSE, READ_HIGH_FUSE, READ_EXTENDED_FUSE>>[i]
              /\ i < Len(sent) => sent[i].returned.tag = "Ok"
              /\ sent[i].returned.tag = "Err" =>
                   /\ i = Len(sent)
                   /\ op.result = sent[i].returned
         /\ op.result.tag = "Running" => Len(sent) < 3
         /\ op.result.tag = "Ok" =>
              /\ Len(sent) = 3
              /\ \A i \in 1..3 : sent[i].returned.tag = "Ok"
              /\ op.result.val = [low |-> sent[1].dev.wire[8],
                                  high |-> sent[2].dev.wire[8],
                                  extended |-> sent[3].dev.wire[8]]

C21_Witness ==
    /\ op.name = "get_fuses"
    /\ Len(sent) = 3
    /\ op.result = Ok([low |-> 30, high |-> 255, extended |-> 30])

\* A failed high-fuse read ends get_fuses after two commands.
C21_FailureWitness ==
    /\ op.name = "get_fuses"
    /\ Len(sent) = 2
    /\ op.result = [tag |-> "Err", err |-> [kind |-> "StatusError"]]

\* The answer does not start with MESSAGE_START or does not carry TOKEN.
ForeignHeader(e) == e.dev.wire[1] # MESSAGE_START \/ e.dev.wire[5] # TOKEN

\* C22: an answer is accepted on its length field and checksum alone.  A
\* whole frame whose first byte is not 0x1B or whose fifth byte is not 0x0E,
\* and whose trailing byte is the XOR of all bytes before it, is decoded, and
\* command() deals with it as with any answer: SequenceError on another
\* sequence number, else AnswerIdError on another command byte, else
\* StatusError on a status other than CmdOk, else Ok.
C22_HeaderNotValidated ==
    \A e \in Entries :
      (Answered(e) /\ AnswerChecksumOk(e) /\ ForeignHeader(e)
         /\ Len(AnswerBody(e)) >= 2)
      => e.returned
           = IF AnswerSeq(e) # SentSeq(e) THEN ErrorOf("SequenceError")
             ELSE IF AnswerBody(e)[1] # SentCmd(e) THEN ErrorOf("AnswerIdError")
             ELSE IF AnswerBody(e)[2] # CmdOk THEN ErrorOf("StatusError")
             ELSE [tag |-> "Ok"]

\* sign_on is answered under the start marker 0 and yields the programmer.
C22_Witness ==
    /\ op.name = "sign_on"
    /\ Answered(sent[1])
    /\ sent[1].dev.wire[1] = 0
    /\ sent[1].dev.wire[5] = TOKEN
    /\ AnswerChecksumOk(sent[1])
    /\ sent[1].returned.tag = "Ok"
    /\ op.result = Ok("STK500_V2")

\* An answer under the token 0 is refused for its status, not for its token.
C22_TokenWitness ==
    /\ Len(sent) >= 1
    /\ sent[Len(sent)].dev.write
    /\ Len(sent[Len(sent)].dev.wire) > 5
    /\ sent[Len(sent)].dev.wire[5] = 0
    /\ AnswerChecksumOk(sent[Len(sent)])
    /\ sent[Len(sent)].returned = ErrorOf("StatusError")

\* C23 as the spec states it: whenever an operation a client called ends with
\* an error, the client still holds the session it called it on, a failed
\* try_into included, after which the Normal session is there for more
\* commands.
C23_SessionKeptAfterError ==
    [][(IsClient /\ calls' = calls + 1 /\ op'.result.tag = "Err")
         => session' = session]_vars

\* What holds of C23: the operations that borrow the session (sign_on and all
\* of IspMode but close) leave it with the client after an error.
C23_BorrowedSessionKept ==
    [][(IsClient /\ calls' = calls + 1 /\ op'.result.tag = "Err"
          /\ op'.name \notin {"try_into", "close"})
         => session' = session]_vars

\* A client's try_into failed and the Normal session is gone.
C23_LostAfterTryInto ==
    /\ caller = "client"
    /\ op.name = "try_into"
    /\ op.result.tag = "Err"
    /\ sent[Len(sent)].session = "Normal"
    /\ session = "Dropped"

\* C24: when the k-th page command of a flash or EEPROM read fails, the read
\* returns that error and sends no page command after it; the destination
\* slices of page k and of the pages after it are as they were before the
\* read (zeroes), and the slices of the pages before k hold the payloads
\* received for them.
C24_PartialRead ==
    op.name \in ReadOps =>
      \A k \in 1..(Len(sent) - 1) :
        sent[k + 1].returned.tag = "Err" =>
          /\ k + 1 = Len(sent)
          /\ op.result = sent[k + 1].returned
          /\ Len(op.acc) = op.len
          /\ \A j \in 1..(k - 1) :
               /\ sent[j + 1].returned.tag = "Ok"
               /\ SubSeq(op.acc, (j - 1) * PageSize + 1, j * PageSize)
                    = SubSeq(AnswerBody(sent[j + 1]), 3, PageSize + 2)
          /\ \A i \in ((k - 1) * PageSize + 1)..op.len : op.acc[i] = 0

\* The third page of a flash read of four pages of two bytes fails.
C24_Witness ==
    /\ op.name = "flash_read"
    /\ PageSize = 2
    /\ op.len = 8
    /\ Len(sent) = 4
    /\ op.result = ErrorOf("ChecksumError")
    /\ op.acc = <<1, 2, 255, 255, 0, 0, 0, 0>>

\* The prefix of bytes that ends at its last byte other than 0xFF; empty when
\* there is none.
WithoutTrailingFF(bytes) ==
    LET keep == {n \in 0..Len(bytes) : \A i \in (n + 1)..Len(bytes) : bytes[i] = 255}
    IN  SubSeq(bytes, 1, CHOOSE n \in keep : \A m \in keep : n <= m)

\* C25 as the spec states it: truncate removes exactly the trailing run of
\* 0xFF bytes of the flash image.  What is dumped is the prefix that ends at
\* the last byte other than 0xFF, so no such byte is dropped, not the one at
\* index 0 either, and an image of 0xFF bytes only becomes empty.
C25_TruncateTrailingFF ==
    image.stage \in {"truncated", "dumped"}
      => image.bytes = WithoutTrailingFF(image.read)

\* The image whose only byte other than 0xFF is the first loses that byte.
C25_FirstByteDropped ==
    /\ image.stage = "dumped"
    /\ image.read = <<1, 255, 255>>
    /\ image.file = <<>>

\* The image of 0xFF bytes only is dumped whole.
C25_ErasedImageKept ==
    /\ image.stage = "dumped"
    /\ image.read = <<255, 255, 255>>
    /\ image.file = <<255, 255, 255>>

\* What holds of truncate: an image with a byte other than 0xFF after index 0
\* loses exactly its trailing 0xFF bytes.
C25_TruncateElsewhere ==
    (/\ image.stage \in {"truncated", "dumped"}
     /\ \E i \in 2..Len(image.read) : image.read[i] # 255)
      => image.bytes = WithoutTrailingFF(image.read)

\* C10 as the spec states it, for main(): once main() has entered ISP mode,
\* the last command it sends before it returns is leave-ISP-mode.
C10_LeaveIspModeIsLast ==
    (caller \in {"returned_ok", "returned_err"} /\ entered)
      => SentCmd(sent[Len(sent)]) = LeaveIspMode

===========================================================================
